---- MODULE Spec2Model ----
(***************************************************************************)
(* sol2uml: the diagram assembly engine.                                   *)
(*   src/src/ts/converter.ts     render pipeline, association resolver     *)
(*   src/src/ts/dotGenerator.ts  node labels (visibility tiers, operators) *)
(* Text is modelled as a sequence of lines (records); a string whose       *)
(* characters matter (a path, a file name) is a sequence of one-character  *)
(* strings.                                                                *)
(***************************************************************************)
EXTENDS Integers, Sequences, FiniteSets, TLC

VARIABLES
    umlClasses,     \* the UmlClass[] the caller holds (sorted in place by a render)
    classOptions,   \* ClassOptions: the set of hide flags that are set
    clusterFolders, \* boolean argument of the render
    subGraphCount,  \* converter.ts:121, module-level counter
    dot,            \* text returned by the last convertUmlClasses2Dot
    prevDot,        \* text returned by the call before it
    renders,        \* number of convertUmlClasses2Dot calls so far
    assocDot,       \* the last direct addAssociationsToDot call: its array and its text
    nodeDot,        \* the last direct dotUmlClass call: its class and its text
    pc,             \* position inside generateFilesFromUmlClasses
    outputFormat,   \* 'svg' | 'png' | 'dot' | 'all'
    outputBaseName, \* argument, reassigned at converter.ts:47
    outputFilename, \* argument (<<>> when absent), reassigned at converter.ts:51
    isDirectory,    \* what lstatSync(outputBaseName).isDirectory() answers
    pending,        \* writeFile calls started and not yet completed
    files,          \* the file system: resolved path -> kind of content
    calls,          \* log of external calls, in order
    outcome,        \* the promise of generateFilesFromUmlClasses:
                    \* "idle" (not called) | "pending" | "resolved" | "rejected"
    failed,         \* the writeFile calls whose callback received an error
    contractAddress, \* argument of EtherscanParser.getSourceCode
    response,       \* how axios.get settles for that call
    sourceCode      \* how the promise of getSourceCode settled ("none": not called)

vars == <<umlClasses, classOptions, clusterFolders, subGraphCount, dot, prevDot,
          renders, assocDot, nodeDot, pc, outputFormat, outputBaseName,
          outputFilename, isDirectory, pending, files, calls, outcome, failed,
          contractAddress, response, sourceCode>>

renderVars == <<umlClasses, classOptions, clusterFolders, subGraphCount, dot,
                prevDot, renders, assocDot, nodeDot>>

fileVars == <<pc, outputFormat, outputBaseName, outputFilename, isDirectory,
              pending, files, calls, outcome, failed>>

etherscanVars == <<contractAddress, response, sourceCode>>

----------------------------------------------------------------------------
(* Bounds *)

MaxClasses == 3
MaxRenders == 2
MaxMembers == 3

----------------------------------------------------------------------------
(* Strings as character sequences *)

\* UTF-16 code unit of a character, for JavaScript's < and > on strings
CharCode(c) ==
    CASE c = "-" -> 45
      [] c = "." -> 46
      [] c = "/" -> 47
      [] c = "a" -> 97
      [] c = "b" -> 98
      [] c = "c" -> 99
      [] c = "d" -> 100
      [] c = "g" -> 103
      [] c = "n" -> 110
      [] c = "o" -> 111
      [] c = "p" -> 112
      [] c = "s" -> 115
      [] c = "t" -> 116
      [] c = "v" -> 118
      [] c = "w" -> 119
      [] c = "x" -> 120

RECURSIVE StrLess(_, _)
\* a < b on JavaScript strings: lexicographic by code unit, a proper prefix is smaller
StrLess(a, b) ==
    IF b = <<>> THEN FALSE
    ELSE IF a = <<>> THEN TRUE
    ELSE IF CharCode(Head(a)) < CharCode(Head(b)) THEN TRUE
    ELSE IF CharCode(Head(a)) > CharCode(Head(b)) THEN FALSE
    ELSE StrLess(Tail(a), Tail(b))

\* index of the last occurrence of character c in s, 0 when there is none
LastIndexOf(s, c) ==
    LET hits == {i \in 1..Len(s) : s[i] = c}
    IN  IF hits = {} THEN 0 ELSE CHOOSE i \in hits : \A j \in hits : j <= i

\* path.dirname of a path with no trailing slash
Dirname(p) ==
    LET k == LastIndexOf(p, "/")
    IN  IF k = 0 THEN <<".">>
        ELSE IF k = 1 THEN <<"/">>
        ELSE SubSeq(p, 1, k - 1)

----------------------------------------------------------------------------
(* Lines of dot text *)

\* placeholder in a line field that does not apply to the line's kind
NoId == 0 - 1

Line(kind, id, tgt, sat, name, path, label, attrs) ==
    [kind |-> kind, id |-> id, tgt |-> tgt, sat |-> sat, name |-> name,
     path |-> path, label |-> label, attrs |-> attrs]

\* the opening of the digraph, converter.ts:78-83
DigraphHeader ==
    Line("digraph", NoId, NoId, NoId, "UmlClassDiagram", <<>>, <<>>,
         <<"rankdir=BT", "color=black", "arrowhead=open",
           "node [shape=record, style=filled, fillcolor=gray95]">>)

CloseBrace == Line("close", NoId, NoId, NoId, "", <<>>, <<>>, <<>>)

\* a token of a node label
Token(t, s, ty, glyph, params, rets) ==
    [t |-> t, s |-> s, ty |-> ty, glyph |-> glyph, params |-> params, rets |-> rets]

----------------------------------------------------------------------------
(* dotGenerator.ts *)

\* the flags of ClassOptions, dotGenerator.ts:12-19
HideFlags == {"hideAttributes", "hideOperators", "hideStructs", "hideEnums",
              "hideLibraries", "hideInterfaces"}

\* the condition of dotGenerator.ts:26-31 and of converter.ts:184-189
IsHidden(umlClass, options) ==
    \/ "hideLibraries" \in options /\ umlClass.stereotype = "Library"
    \/ "hideInterfaces" \in options /\ umlClass.stereotype = "Interface"

dotClassTitle(umlClass) ==
    LET stereoName ==
            CASE umlClass.stereotype = "Abstract" -> "Abstract"
              [] umlClass.stereotype = "Interface" -> "Interface"
              [] umlClass.stereotype = "Library" -> "Library"
              [] OTHER -> ""
    IN  <<Token("title", umlClass.name, "", stereoName, "", "")>>

VizGroups == <<"Private", "Internal", "External", "Public">>

\* mutant: a member without visibility is in no group
InVizGroupDefinedOnly(vizGroup, visibility) ==
    \/ vizGroup = visibility
    \/ vizGroup = "Public" /\ visibility = "None"

\* the if / else-if chain of dotGenerator.ts:88-112 and 145-169: whether a
\* member of the given visibility is pushed while vizGroup is being collected
InVizGroup(vizGroup, visibility) ==
    IF vizGroup = "Private" /\ visibility = "Private" THEN TRUE
    ELSE IF vizGroup = "Internal" /\ visibility = "Internal" THEN TRUE
    ELSE IF vizGroup = "External" /\ visibility = "External" THEN TRUE
    ELSE IF vizGroup = "Public"
            /\ (visibility = "Public" \/ visibility = "None"
                \/ visibility = "undefined") THEN TRUE
    ELSE FALSE

\* the members of seq pushed for vizGroup, in the order of seq
GroupMembers(vizGroup, seq) ==
    SelectSeq(seq, LAMBDA m : InVizGroup(vizGroup, m.visibility))

RECURSIVE AttributeTokens(_)
AttributeTokens(attributes) ==
    IF attributes = <<>> THEN <<>>
    ELSE <<Token("attr", Head(attributes).name, Head(attributes).type, "", "", "")>>
         \o AttributeTokens(Tail(attributes))

dotAttributes(vizGroup, attributes) ==
    IF attributes = <<>> THEN <<>>
    ELSE <<Token("head", vizGroup, "", "", "", "")>> \o AttributeTokens(attributes)

RECURSIVE AttributeGroups(_, _)
AttributeGroups(umlClass, g) ==
    IF g > Len(VizGroups) THEN <<>>
    ELSE dotAttributes(VizGroups[g], GroupMembers(VizGroups[g], umlClass.attributes))
         \o AttributeGroups(umlClass, g + 1)

dotAttributeVisibilities(umlClass) ==
    <<Token("sep", "| ", "", "", "", "")>> \o AttributeGroups(umlClass, 1)

\* OperatorStereotype by ordinal (the enum is declared in umlClass.ts)
OperatorStereotypeNames ==
    <<"None", "Event", "Fallback", "Modifier", "Abstract", "Payable">>

dotOperatorStereotype(umlClass, operatorStereotype) ==
    LET n == OperatorStereotypeNames[operatorStereotype + 1]
    IN  (CASE n = "Event" -> "event"
           [] n = "Fallback" -> "fallback"
           [] n = "Modifier" -> "modifier"
           [] n = "Abstract" ->
                IF umlClass.stereotype = "Abstract" THEN "abstract" ELSE ""
           [] n = "Payable" -> "payable"
           [] OTHER -> "") \o " "

RECURSIVE ParameterList(_, _)
\* the loop of dotGenerator.ts:262-274
ParameterList(parameters, i) ==
    IF i > Len(parameters) THEN ""
    ELSE (IF parameters[i].isNull THEN parameters[i].type
          ELSE parameters[i].name \o ": " \o parameters[i].type)
         \o (IF i < Len(parameters) THEN ", " ELSE "")
         \o ParameterList(parameters, i + 1)

dotParameters(parameters, returnParams) ==
    IF Len(parameters) = 1 /\ (parameters[1].isNull \/ parameters[1].name = "")
    THEN IF returnParams THEN parameters[1].type
         ELSE "(" \o parameters[1].type \o ")"
    ELSE "(" \o ParameterList(parameters, 1) \o ")"

\* mutant: ascending order of stereotype
OperatorCompareAscending(a, b) == a.stereotype - b.stereotype

\* the comparator of dotGenerator.ts:191-193: negative when a goes before b
OperatorCompare(a, b) == b.stereotype - a.stereotype

RECURSIVE InsertOperator(_, _)
\* x placed before the first element it compares below, after every other one
InsertOperator(x, sorted) ==
    IF sorted = <<>> THEN <<x>>
    ELSE IF OperatorCompare(x, Head(sorted)) < 0 THEN <<x>> \o sorted
    ELSE <<Head(sorted)>> \o InsertOperator(x, Tail(sorted))

RECURSIVE SortOperators(_)
\* operators.sort(...) of dotGenerator.ts:191: Array.prototype.sort is stable
SortOperators(operators) ==
    IF operators = <<>> THEN <<>>
    ELSE InsertOperator(operators[Len(operators)],
                        SortOperators(SubSeq(operators, 1, Len(operators) - 1)))

RECURSIVE OperatorTokens(_, _)
OperatorTokens(umlClass, operators) ==
    IF operators = <<>> THEN <<>>
    ELSE LET operator == Head(operators)
         IN  <<Token("op", operator.name, "",
                     IF operator.stereotype > 0
                     THEN dotOperatorStereotype(umlClass, operator.stereotype)
                     ELSE "",
                     dotParameters(operator.parameters, FALSE),
                     IF Len(operator.returnParameters) > 0
                     THEN ": " \o dotParameters(operator.returnParameters, TRUE)
                     ELSE "")>>
             \o OperatorTokens(umlClass, Tail(operators))

dotOperators(umlClass, vizGroup, operators) ==
    IF operators = <<>> THEN <<>>
    ELSE <<Token("head", vizGroup, "", "", "", "")>>
         \o OperatorTokens(umlClass, SortOperators(operators))

RECURSIVE OperatorGroups(_, _)
OperatorGroups(umlClass, g) ==
    IF g > Len(VizGroups) THEN <<>>
    ELSE dotOperators(umlClass, VizGroups[g],
                      GroupMembers(VizGroups[g], umlClass.operators))
         \o OperatorGroups(umlClass, g + 1)

\* mutant: the sort is applied to the class's own operators array
OperatorsAfterLabelSortedInPlace(umlClass) == SortOperators(umlClass.operators)

\* umlClass.operators once dotOperatorVisibilities has returned: the sort of
\* dotGenerator.ts:191 reorders the array built at dotGenerator.ts:141, a copy
OperatorsAfterLabel(umlClass) == umlClass.operators

dotOperatorVisibilities(umlClass) ==
    <<Token("sep", "| ", "", "", "", "")>> \o OperatorGroups(umlClass, 1)

RECURSIVE Satellites(_, _, _, _)
\* dotStructs / dotEnums: per declared key a satellite node and its edge to the owner
Satellites(umlClass, kind, decls, count) ==
    IF count >= Len(decls) THEN <<>>
    ELSE <<Line(kind \o "node", umlClass.id, NoId, count, decls[count + 1].key,
                <<>>, <<>>, decls[count + 1].members),
           Line(kind \o "edge", umlClass.id, umlClass.id, count, "", <<>>, <<>>,
                <<"arrowhead=diamond", "weight=3">>)>>
         \o Satellites(umlClass, kind, decls, count + 1)

RECURSIVE FieldLines(_)
\* the fields of a struct as the loop of dotGenerator.ts:289-291 writes them
FieldLines(fields) ==
    IF fields = <<>> THEN <<>>
    ELSE <<Head(fields).name \o ": " \o Head(fields).type>> \o FieldLines(Tail(fields))

dotStructs(umlClass) ==
    Satellites(umlClass, "struct",
               [k \in 1..Len(umlClass.structs) |->
                   [key |-> umlClass.structs[k].key,
                    members |-> FieldLines(umlClass.structs[k].members)]],
               0)

dotEnums(umlClass) == Satellites(umlClass, "enum", umlClass.enums, 0)

\* the class once dotUmlClass has returned
ClassAfterLabel(umlClass, options) ==
    IF IsHidden(umlClass, options) \/ "hideOperators" \in options THEN umlClass
    ELSE [umlClass EXCEPT !.operators = OperatorsAfterLabel(umlClass)]

dotUmlClass(umlClass, options) ==
    IF IsHidden(umlClass, options) THEN <<>>
    ELSE <<Line("node", umlClass.id, NoId, NoId, "", <<>>,
                dotClassTitle(umlClass)
                \o (IF "hideAttributes" \notin options
                    THEN dotAttributeVisibilities(umlClass) ELSE <<>>)
                \o (IF "hideOperators" \notin options
                    THEN dotOperatorVisibilities(umlClass) ELSE <<>>),
                <<>>)>>
         \o (IF "hideStructs" \notin options THEN dotStructs(umlClass) ELSE <<>>)
         \o (IF "hideEnums" \notin options THEN dotEnums(umlClass) ELSE <<>>)

----------------------------------------------------------------------------
(* converter.ts: the render *)

\* the comparator of converter.ts:130-138: negative when a goes before b
CodePathCompare(a, b) ==
    IF StrLess(a.codePath, b.codePath) THEN 0 - 1
    ELSE IF StrLess(b.codePath, a.codePath) THEN 1
    ELSE 0

RECURSIVE InsertClass(_, _)
InsertClass(x, sorted) ==
    IF sorted = <<>> THEN <<x>>
    ELSE IF CodePathCompare(x, Head(sorted)) < 0 THEN <<x>> \o sorted
    ELSE <<Head(sorted)>> \o InsertClass(x, Tail(sorted))

RECURSIVE sortUmlClassesByCodePath(_)
\* umlClasses.sort(...): stable, and in place (the caller's array is reordered)
sortUmlClassesByCodePath(classes) ==
    IF classes = <<>> THEN <<>>
    ELSE InsertClass(classes[Len(classes)],
                     sortUmlClassesByCodePath(SubSeq(classes, 1, Len(classes) - 1)))

\* the name returned for the given value of subGraphCount (which the call increments)
getSubGraphName(cluster, count) ==
    IF cluster THEN " cluster_" \o ToString(count) ELSE " graph_" \o ToString(count)

\* the edge of an association, whatever the target's stereotype
AssociationEdge(sourceUmlClass, targetUmlClass, association, options) ==
         <<Line("edge", sourceUmlClass.id, targetUmlClass.id, NoId, "", <<>>, <<>>,
                (IF \/ association.referenceType = "Memory"
                    \/ association.realization /\ targetUmlClass.stereotype = "Interface"
                 THEN <<"style=dashed">> ELSE <<>>)
                \o (IF association.realization
                    THEN <<"arrowhead=empty", "arrowsize=3",
                           IF targetUmlClass.stereotype = "None"
                           THEN "weight=4" ELSE "weight=3">>
                    ELSE <<>>))>>

\* mutant: the edge is written although the target is hidden
addAssociationToDotUnhidden(sourceUmlClass, targetUmlClass, association, options) ==
    AssociationEdge(sourceUmlClass, targetUmlClass, association, options)

addAssociationToDot(sourceUmlClass, targetUmlClass, association, options) ==
    IF IsHidden(targetUmlClass, options) THEN <<>>
    ELSE AssociationEdge(sourceUmlClass, targetUmlClass, association, options)

\* mutant: the target is matched by name alone
IsTargetOfNameOnly(targetUmlClass, sourceUmlClass, association) ==
    targetUmlClass.name = association.targetUmlClassName

\* the predicate handed to umlClasses.find at converter.ts:154-162
IsTargetOf(targetUmlClass, sourceUmlClass, association) ==
    /\ targetUmlClass.name = association.targetUmlClassName
    /\ \/ targetUmlClass.codePath \in sourceUmlClass.importedPaths
       \/ sourceUmlClass.codePath = targetUmlClass.codePath

\* mutant: the last element satisfying the predicate is taken
FindTargetLast(classes, sourceUmlClass, association) ==
    LET hits == {i \in 1..Len(classes) :
                    IsTargetOf(classes[i], sourceUmlClass, association)}
    IN  IF hits = {} THEN 0 ELSE CHOOSE i \in hits : \A j \in hits : i >= j

\* umlClasses.find(...): index of the first element satisfying it, 0 for undefined
FindTarget(classes, sourceUmlClass, association) ==
    LET hits == {i \in 1..Len(classes) :
                    IsTargetOf(classes[i], sourceUmlClass, association)}
    IN  IF hits = {} THEN 0 ELSE CHOOSE i \in hits : \A j \in hits : i <= j

\* mutant: the loop over a class's associations ends at the first one without a target
AssociationLinesStopAtMissing(classes, sourceUmlClass, k, options) ==
    LET RECURSIVE Go(_)
        Go(j) ==
            IF j > Len(sourceUmlClass.associations) THEN <<>>
            ELSE LET association == sourceUmlClass.associations[j]
                     t == FindTarget(classes, sourceUmlClass, association)
                 IN  IF t = 0 THEN <<>>
                     ELSE addAssociationToDot(sourceUmlClass, classes[t],
                                              association, options) \o Go(j + 1)
    IN  Go(k)

RECURSIVE AssociationLines(_, _, _, _)
\* the inner loop of converter.ts:150-171 for one source class
AssociationLines(classes, sourceUmlClass, k, options) ==
    IF k > Len(sourceUmlClass.associations) THEN <<>>
    ELSE LET association == sourceUmlClass.associations[k]
             t == FindTarget(classes, sourceUmlClass, association)
         IN  (IF t # 0
              THEN addAssociationToDot(sourceUmlClass, classes[t], association, options)
              ELSE <<>>)
             \o AssociationLines(classes, sourceUmlClass, k + 1, options)

RECURSIVE SourceLines(_, _, _)
SourceLines(classes, s, options) ==
    IF s > Len(classes) THEN <<>>
    ELSE AssociationLines(classes, classes[s], 1, options)
         \o SourceLines(classes, s + 1, options)

addAssociationsToDot(classes, options) == SourceLines(classes, 1, options)

RECURSIVE SubgraphLines(_, _, _, _, _, _)
\* the loop of converter.ts:88-104 from element i on: the lines it appends, and
\* the values of currentCodeFolder and subGraphCount it ends with
SubgraphLines(classes, i, currentCodeFolder, count, cluster, options) ==
    IF i > Len(classes)
    THEN [lines |-> <<>>, folder |-> currentCodeFolder, count |-> count]
    ELSE LET codeFolder == Dirname(classes[i].codePath)
             opens == currentCodeFolder # codeFolder
             rest == SubgraphLines(classes, i + 1, codeFolder,
                                   IF opens THEN count + 1 ELSE count,
                                   cluster, options)
         IN  [lines |->
                  (IF opens
                   THEN (IF currentCodeFolder # <<>> THEN <<CloseBrace>> ELSE <<>>)
                        \o <<Line("subgraph", NoId, NoId, NoId,
                                  getSubGraphName(cluster, count), codeFolder,
                                  <<>>, <<>>)>>
                   ELSE <<>>)
                  \o dotUmlClass(classes[i], options)
                  \o rest.lines,
              folder |-> rest.folder,
              count |-> rest.count]

\* the text returned, the array as the sort leaves it, and the counter afterwards
convertUmlClasses2Dot(classes, cluster, options, count) ==
    LET umlClassesSortedByCodePath == sortUmlClassesByCodePath(classes)
        body == SubgraphLines(umlClassesSortedByCodePath, 1, <<>>, count,
                              cluster, options)
    IN  [text |-> <<DigraphHeader>>
                  \o body.lines
                  \o (IF body.folder # <<>> THEN <<CloseBrace>> ELSE <<>>)
                  \o addAssociationsToDot(umlClassesSortedByCodePath, options)
                  \o <<CloseBrace>>,
         classes |-> [i \in 1..Len(umlClassesSortedByCodePath) |->
                        ClassAfterLabel(umlClassesSortedByCodePath[i], options)],
         count |-> body.count]

----------------------------------------------------------------------------
(* Inputs *)

FileA == <<"a", "/", "a">>
FileB == <<"b", "/", "b">>
FileC == <<"c">>

UmlClass(id, name, codePath, stereotype, attrs, ops, structs, enums, assocs, imports) ==
    [id |-> id, name |-> name, codePath |-> codePath, stereotype |-> stereotype,
     attributes |-> attrs, operators |-> ops, structs |-> structs,
     enums |-> enums, associations |-> assocs, importedPaths |-> imports]

Association(targetUmlClassName, referenceType, realization) ==
    [targetUmlClassName |-> targetUmlClassName, referenceType |-> referenceType,
     realization |-> realization]

BalanceAttribute == [name |-> "balance", type |-> "uint256", visibility |-> "Public"]

InfoStruct == [key |-> "Info", members |-> <<[name |-> "x", type |-> "uint"]>>]

KindEnum == [key |-> "Kind", members |-> <<"On", "Off">>]

\* name, file and stereotype of the classes of the association scenarios
ClassShapes ==
    {<<"Foo", FileA, "None">>, <<"Foo", FileA, "Library">>,
     <<"Foo", FileB, "None">>, <<"Foo", FileB, "Interface">>,
     <<"Bar", FileA, "Interface">>, <<"Bar", FileC, "None">>}

AssociationChoices ==
    {<<Association("Foo", "Storage", FALSE)>>,
     <<Association("Zed", "Storage", FALSE), Association("Foo", "Memory", TRUE)>>,
     <<Association("Foo", "Storage", TRUE), Association("Bar", "Storage", FALSE)>>}

ImportChoices == {{FileA}, {FileA, FileB}}

\* the shapes of the class that declares associations
SourceShapes == {<<"Bar", FileC, "None">>, <<"Foo", FileA, "Library">>}

\* class lists with one class declaring associations and imports
ListsOfShape(n, shape) ==
    {[i \in 1..n |->
        UmlClass(i, shape[i][1], shape[i][2], shape[i][3],
                 <<BalanceAttribute>>, <<>>,
                 IF shape[i][1] = "Foo" THEN <<InfoStruct>> ELSE <<>>,
                 IF shape[i][1] = "Bar" THEN <<KindEnum>> ELSE <<>>,
                 IF i = s THEN assoc ELSE <<>>,
                 IF i = s THEN imports ELSE {})] :
        s \in {i \in 1..n : shape[i] \in SourceShapes},
        assoc \in AssociationChoices, imports \in ImportChoices}

AssociationLists ==
    UNION {UNION {ListsOfShape(n, shape) : shape \in [1..n -> ClassShapes]}
           : n \in 1..MaxClasses}

FolderFiles ==
    {<<"a", "/", "a">>, <<"a", "/", "b", "/", "x">>, <<"a", "/", "c">>,
     <<"a", "-", "b", "/", "x">>, <<"x">>}

\* class lists that differ in the files the classes come from
FolderLists ==
    UNION {
        {[i \in 1..n |->
            UmlClass(i, "Foo", paths[i],
                     IF paths[i] = <<"x">> THEN "Library" ELSE "None",
                     <<BalanceAttribute>>, <<>>, <<InfoStruct>>, <<>>, <<>>, {})] :
            paths \in [1..n -> FolderFiles]}
        : n \in 1..MaxClasses}

----------------------------------------------------------------------------
(* State machine of the render *)

FilesIdle ==
    /\ pc = "idle"
    /\ outputFormat = "svg"
    /\ outputBaseName = <<>>
    /\ outputFilename = <<>>
    /\ isDirectory = FALSE
    /\ pending = {}
    /\ files = {}
    /\ calls = <<>>
    /\ outcome = "idle"
    /\ failed = {}

\* getSourceCode is not called
EtherscanIdle ==
    /\ contractAddress = ""
    /\ response = [kind |-> "none", status |-> 0, statusText |-> "",
                   data |-> [present |-> FALSE,
                             result |-> [kind |-> "absent", text |-> "",
                                         items |-> <<>>]]]
    /\ sourceCode = [kind |-> "none", files |-> <<>>,
                     error |-> [name |-> "", message |-> "", hasResponse |-> FALSE,
                                status |-> 0, statusText |-> ""]]

RenderIdle ==
    /\ subGraphCount = 0
    /\ dot = <<>>
    /\ prevDot = <<>>
    /\ renders = 0
    /\ assocDot = [classes |-> <<>>, text |-> <<>>]
    /\ nodeDot = [class |-> <<>>, text |-> <<>>]

Init ==
    /\ umlClasses \in AssociationLists
    /\ classOptions \in {{}, {"hideLibraries"}, {"hideInterfaces"}}
    /\ clusterFolders = FALSE
    /\ RenderIdle
    /\ FilesIdle
    /\ EtherscanIdle

InitFolders ==
    /\ umlClasses \in FolderLists
    /\ classOptions \in {{}, {"hideLibraries", "hideStructs"}}
    /\ clusterFolders \in BOOLEAN
    /\ RenderIdle
    /\ FilesIdle
    /\ EtherscanIdle

\* a call of convertUmlClasses2Dot on the caller's array
Render ==
    /\ pc = "idle"
    /\ renders < MaxRenders
    /\ LET r == convertUmlClasses2Dot(umlClasses, clusterFolders, classOptions,
                                      subGraphCount)
       IN  /\ umlClasses' = r.classes
           /\ subGraphCount' = r.count
           /\ prevDot' = dot
           /\ dot' = r.text
    /\ renders' = renders + 1
    /\ UNCHANGED <<classOptions, clusterFolders, assocDot, nodeDot>>
    /\ UNCHANGED fileVars
    /\ UNCHANGED etherscanVars

\* a direct call of the exported addAssociationsToDot
AddAssociations ==
    /\ pc = "idle"
    /\ assocDot' = [classes |-> umlClasses,
                    text |-> addAssociationsToDot(umlClasses, classOptions)]
    /\ UNCHANGED <<umlClasses, classOptions, clusterFolders, subGraphCount, dot,
                   prevDot, renders, nodeDot>>
    /\ UNCHANGED fileVars
    /\ UNCHANGED etherscanVars

\* the first render of the process
FirstRender == renders = 0 /\ Render

\* one render, and direct calls of the association resolver before or after it
Next == FirstRender \/ AddAssociations

Spec == Init /\ [][Next]_vars

\* renders in a row in one process
NextFolders == Render \/ AddAssociations

SpecFolders == InitFolders /\ [][NextFolders]_vars

----------------------------------------------------------------------------
(* State machine of the node label *)

Visibilities == {"Private", "Internal", "External", "Public", "None", "undefined"}

AttributeLists ==
    UNION {{[k \in 1..n |->
                [name |-> "a" \o ToString(k), type |-> "uint", visibility |-> v[k]]] :
            v \in [1..n -> Visibilities]}
           : n \in 0..MaxMembers}

NoParameters == <<>>

OneUnnamed == <<[name |-> "", isNull |-> TRUE, type |-> "bool"]>>

TwoParameters ==
    <<[name |-> "to", isNull |-> FALSE, type |-> "address"],
      [name |-> "", isNull |-> TRUE, type |-> "uint"]>>

\* visibility and stereotype ordinal of the operators of the label scenarios
OperatorShapes ==
    {<<"Private", 0>>, <<"Private", 4>>, <<"Internal", 3>>, <<"External", 5>>,
     <<"Public", 0>>, <<"Public", 2>>, <<"None", 1>>, <<"undefined", 0>>,
     <<"undefined", 5>>}

OperatorLists ==
    UNION {{[k \in 1..n |->
                [name |-> "f" \o ToString(k),
                 parameters |-> IF k = 1 THEN OneUnnamed ELSE TwoParameters,
                 returnParameters |-> IF k = 2 THEN OneUnnamed ELSE NoParameters,
                 visibility |-> shape[k][1], stereotype |-> shape[k][2]]] :
            shape \in [1..n -> OperatorShapes]}
           : n \in 0..MaxMembers}

FixedOperators ==
    <<[name |-> "f1", parameters |-> NoParameters, returnParameters |-> NoParameters,
       visibility |-> "External", stereotype |-> 0]>>

\* one class: its attributes vary, or its operators do
LabelLists ==
    {<<UmlClass(1, "Token", FileA, "None", attributes, FixedOperators,
                <<InfoStruct>>, <<KindEnum>>, <<>>, {})>> :
        attributes \in AttributeLists}
    \cup
    {<<UmlClass(1, "Token", FileA, "Abstract", <<BalanceAttribute>>, operators,
                <<>>, <<>>, <<>>, {})>> :
        operators \in OperatorLists}

InitLabel ==
    /\ umlClasses \in LabelLists
    /\ classOptions \in {{}, {"hideAttributes"}, {"hideOperators"}}
    /\ clusterFolders = FALSE
    /\ RenderIdle
    /\ FilesIdle
    /\ EtherscanIdle

\* a direct call of the exported dotUmlClass on a class of the list
DotUmlClass ==
    /\ pc = "idle"
    /\ \E i \in 1..Len(umlClasses) :
        /\ nodeDot' = [class |-> umlClasses[i],
                       text |-> dotUmlClass(umlClasses[i], classOptions)]
        /\ umlClasses' = [umlClasses EXCEPT
                            ![i] = ClassAfterLabel(umlClasses[i], classOptions)]
    /\ UNCHANGED <<classOptions, clusterFolders, subGraphCount, dot, prevDot,
                   renders, assocDot>>
    /\ UNCHANGED fileVars
    /\ UNCHANGED etherscanVars

NextLabel == DotUmlClass \/ Render

SpecLabel == InitLabel /\ [][NextLabel]_vars

----------------------------------------------------------------------------
(* converter.ts: the files *)

\* process.cwd()
Cwd == <<"/", "w">>

DotSvg == <<".", "s", "v", "g">>

DotPng == <<".", "p", "n", "g">>

\* the default of writeDot's dotFilename parameter, 'classDiagram.dot', shortened
DefaultDotFilename == <<"c", ".", "d", "o", "t">>

\* path.parse of a path with no trailing slash
ParsePath(p) ==
    LET k == LastIndexOf(p, "/")
        base == SubSeq(p, k + 1, Len(p))
        e == LastIndexOf(base, ".")
    IN  [dir |-> IF k = 0 THEN <<>> ELSE IF k = 1 THEN <<"/">> ELSE SubSeq(p, 1, k - 1),
         name |-> IF e > 1 THEN SubSeq(base, 1, e - 1) ELSE base,
         ext |-> IF e > 1 THEN SubSeq(base, e, Len(base)) ELSE <<>>]

\* path.resolve of one path: the absolute path of the file it names
Resolve(p) ==
    IF p # <<>> /\ p[1] = "/" THEN p
    ELSE IF p = <<".">> \/ p = <<>> THEN Cwd
    ELSE IF Len(p) > 1 /\ p[1] = "." /\ p[2] = "/"
         THEN Cwd \o <<"/">> \o SubSeq(p, 3, Len(p))
    ELSE Cwd \o <<"/">> \o p

\* the file name writeDot hands to writeFile
DotTarget(filename) == IF filename = <<>> THEN DefaultDotFilename ELSE filename

\* mutant: the function goes on after writing the dot file
ReturnsAfterDotNever(format) == FALSE

\* the condition of the return at converter.ts:33-35
ReturnsAfterDot(format) == format = "dot"

\* outputBaseName as converter.ts:43-49 leave it
BaseNameUsed(baseName, isDir) ==
    IF isDir THEN Cwd \o <<"/">> \o ParsePath(Cwd).name ELSE baseName

\* the extension, without its dot, of converter.ts:40
OutputExt(format) ==
    CASE format = "all" -> <<"s", "v", "g">>
      [] format = "svg" -> <<"s", "v", "g">>
      [] format = "png" -> <<"p", "n", "g">>
      [] format = "dot" -> <<"d", "o", "t">>

\* outputFilename after converter.ts:38-52
FilenameUsed(filename, baseName, isDir, format) ==
    IF filename = <<>>
    THEN BaseNameUsed(baseName, isDir) \o <<".">> \o OutputExt(format)
    ELSE filename

\* the file name writeSVG hands to writeFile
SvgTarget(svgFilename, outputFormats) ==
    IF outputFormats = "png"
    THEN LET parsedFile == ParsePath(svgFilename)
         IN  IF parsedFile.dir = <<>>
             THEN Cwd \o <<"/">> \o parsedFile.name \o DotSvg
             ELSE parsedFile.dir \o <<"/">> \o parsedFile.name \o DotSvg
    ELSE svgFilename

\* pngDir, svgFilename and pngFilename of writePng
PngPaths(filename) ==
    LET parsedPngFile == ParsePath(filename)
        pngDir == IF parsedPngFile.dir = <<>> THEN <<".">>
                  ELSE Resolve(parsedPngFile.dir)
    IN  [pngDir |-> pngDir,
         svgFilename |-> pngDir \o <<"/">> \o parsedPngFile.name \o DotSvg,
         pngFilename |-> pngDir \o <<"/">> \o parsedPngFile.name \o DotPng]

Call(op, path, content) == [op |-> op, path |-> path, content |-> content]

\* a writeFile in flight: the file it writes, what it writes, who waits for it
Write(by, path, content) == [by |-> by, path |-> Resolve(path), content |-> content]

\* what the file at the absolute path holds, "none" when there is no such file
ContentAt(fs, path) ==
    IF \E f \in fs : f.path = path
    THEN (CHOOSE f \in fs : f.path = path).content
    ELSE "none"

SetFile(fs, path, content) ==
    {f \in fs : f.path # path} \cup {[path |-> path, content |-> content]}

\* generateFilesFromUmlClasses up to its first await (or its return)
Generate ==
    /\ pc = "idle"
    /\ outcome = "idle"
    /\ LET r == convertUmlClasses2Dot(umlClasses, clusterFolders, classOptions,
                                      subGraphCount)
       IN  /\ umlClasses' = r.classes
           /\ subGraphCount' = r.count
           /\ prevDot' = dot
           /\ dot' = r.text
    /\ renders' = renders + 1
    /\ LET writesDot == outputFormat \in {"dot", "all"}
           dotCalls == IF writesDot
                       THEN <<Call("writeFile", DotTarget(outputFilename), "dot")>>
                       ELSE <<>>
           dotWrites == IF writesDot
                        THEN {Write("writeDot", DotTarget(outputFilename), "dot")}
                        ELSE {}
           statCalls == IF outputFilename = <<>>
                        THEN <<Call("lstatSync", outputBaseName, "")>> ELSE <<>>
           filename == FilenameUsed(outputFilename, outputBaseName, isDirectory,
                                    outputFormat)
           svgFilename == SvgTarget(filename, outputFormat)
       IN  IF writesDot /\ ReturnsAfterDot(outputFormat)
           THEN /\ calls' = dotCalls
                /\ pending' = dotWrites
                /\ pc' = "done"
                /\ outcome' = "resolved"
                /\ UNCHANGED <<outputBaseName, outputFilename>>
           ELSE /\ outputBaseName'
                    = IF outputFilename = <<>>
                      THEN BaseNameUsed(outputBaseName, isDirectory)
                      ELSE outputBaseName
                /\ outputFilename' = filename
                /\ \E layoutOk \in BOOLEAN :
                    IF layoutOk
                    THEN /\ calls' = dotCalls \o statCalls
                                     \o <<Call("Viz", <<>>, "dot"),
                                          Call("writeFile", svgFilename, "svg")>>
                         /\ pending' = dotWrites
                                       \cup {Write("writeSVG", svgFilename, "svg")}
                         /\ pc' = "awaitSvg"
                         /\ outcome' = "pending"
                    ELSE /\ calls' = dotCalls \o statCalls
                                     \o <<Call("Viz", <<>>, "dot")>>
                         /\ pending' = dotWrites
                         /\ pc' = "done"
                         /\ outcome' = "rejected"
    /\ UNCHANGED <<classOptions, clusterFolders, assocDot, nodeDot, outputFormat,
                   isDirectory, files, failed>>
    /\ UNCHANGED etherscanVars

\* the callback of a writeFile runs: the write has succeeded or failed
CompleteWrite ==
    /\ pc # "crashed"
    /\ \E w \in pending, ok \in BOOLEAN :
        /\ files' = IF ok THEN SetFile(files, w.path, w.content) ELSE files
        /\ failed' = IF ok THEN failed ELSE failed \cup {w}
        /\ IF w.by = "writeDot"
           THEN \* converter.ts:229-235: an error is thrown inside the callback
                IF ok
                THEN /\ pending' = pending \ {w}
                     /\ UNCHANGED <<pc, outcome>>
                ELSE /\ pending' = {}
                     /\ pc' = "crashed"
                     /\ UNCHANGED outcome
           ELSE \* converter.ts:255-267: the promise of writeSVG settles
                /\ pending' = pending \ {w}
                /\ IF ok
                   THEN pc' = "svgWritten" /\ UNCHANGED outcome
                   ELSE pc' = "done" /\ outcome' = "rejected"
    /\ UNCHANGED <<outputFormat, outputBaseName, outputFilename, isDirectory, calls>>
    /\ UNCHANGED renderVars
    /\ UNCHANGED etherscanVars

\* generateFilesFromUmlClasses resumes after await writeSVG: converter.ts:59-61
\* and writePng up to its await
AfterWriteSVG ==
    /\ pc = "svgWritten"
    /\ IF outputFormat \in {"png", "all"}
       THEN LET svgPath == Resolve(PngPaths(outputFilename).svgFilename)
            IN  /\ calls' = Append(calls, Call("svg_to_png", svgPath,
                                               ContentAt(files, svgPath)))
                /\ pc' = "awaitPng"
                /\ UNCHANGED outcome
       ELSE /\ pc' = "done"
            /\ outcome' = "resolved"
            /\ UNCHANGED calls
    /\ UNCHANGED <<outputFormat, outputBaseName, outputFilename, isDirectory,
                   pending, files, failed>>
    /\ UNCHANGED renderVars
    /\ UNCHANGED etherscanVars

\* svg_to_png.convert settles: it produces the png only from an svg file
ConvertDone ==
    /\ pc = "awaitPng"
    /\ \E ok \in BOOLEAN :
        IF ok /\ calls[Len(calls)].content = "svg"
        THEN /\ files' = SetFile(files, Resolve(PngPaths(outputFilename).pngFilename),
                                 "png")
             /\ outcome' = "resolved"
        ELSE /\ outcome' = "rejected"
             /\ UNCHANGED files
    /\ pc' = "done"
    /\ UNCHANGED <<outputFormat, outputBaseName, outputFilename, isDirectory,
                   pending, calls, failed>>
    /\ UNCHANGED renderVars
    /\ UNCHANGED etherscanVars

OutputFormats == {"svg", "png", "dot", "all"}

\* explicit outputFilename arguments; <<>> is the absent argument
FilenameChoices ==
    {<<>>,
     <<"d", ".", "s", "v", "g">>,
     <<"d", ".", "p", "n", "g">>,
     <<"d", ".", "d", "o", "t">>,
     <<"o", "/", "d", ".", "p", "n", "g">>,
     <<"o", "/", "d", ".", "s", "v", "g">>}

BaseNameChoices == {<<"d">>, <<"o", "/", "d">>}

InitFiles ==
    /\ umlClasses \in {l \in FolderLists : Len(l) = 1}
    /\ classOptions = {}
    /\ clusterFolders = FALSE
    /\ RenderIdle
    /\ pc = "idle"
    /\ outputFormat \in OutputFormats
    /\ outputBaseName \in BaseNameChoices
    /\ outputFilename \in FilenameChoices
    /\ isDirectory \in BOOLEAN
    /\ pending = {}
    /\ files = {}
    /\ calls = <<>>
    /\ outcome = "idle"
    /\ failed = {}
    /\ EtherscanIdle

NextFiles == Generate \/ CompleteWrite \/ AfterWriteSVG \/ ConvertDone

SpecFiles == InitFiles /\ [][NextFiles]_vars

----------------------------------------------------------------------------
(* Properties of the render *)

\* the class is a Library or an Interface and the option hiding those is set
HiddenByOptions(c) ==
    \/ c.stereotype = "Library" /\ "hideLibraries" \in classOptions
    \/ c.stereotype = "Interface" /\ "hideInterfaces" \in classOptions

\* the line declares the node of class id, a satellite of it, or an association
\* edge that points at it
DeclaresOrTargets(l, id) ==
    \/ l.kind \in {"node", "structnode", "enumnode", "structedge", "enumedge"}
       /\ l.id = id
    \/ l.kind = "edge" /\ l.tgt = id

\* C1: a Library (Interface) class rendered with hideLibraries (hideInterfaces)
\* has no node statement, no struct or enum satellite and no association edge
\* pointing at it in the text convertUmlClasses2Dot returns.
C1_HiddenClassAbsent ==
    \A i \in 1..Len(umlClasses) :
        HiddenByOptions(umlClasses[i]) =>
            \A k \in 1..Len(dot) : ~DeclaresOrTargets(dot[k], umlClasses[i].id)

\* a render has run on a list where a hidden class with a struct is the target
\* found for some association, and other nodes were written
C1_Witness ==
    /\ renders > 0
    /\ \E i, s \in 1..Len(umlClasses) :
        /\ HiddenByOptions(umlClasses[i])
        /\ umlClasses[i].structs # <<>>
        /\ \E a \in 1..Len(umlClasses[s].associations) :
              FindTarget(umlClasses, umlClasses[s], umlClasses[s].associations[a]) = i
    /\ \E k \in 1..Len(dot) : dot[k].kind = "node"

\* every association edge of the text goes from a class of the list to a class
\* whose name the source declares an association to and whose file the source
\* imports or shares
EdgesJustified(text, classes) ==
    \A k \in 1..Len(text) :
        text[k].kind = "edge" =>
            \E s, t \in 1..Len(classes) :
                /\ classes[s].id = text[k].id
                /\ classes[t].id = text[k].tgt
                /\ \E a \in 1..Len(classes[s].associations) :
                      /\ classes[t].name
                            = classes[s].associations[a].targetUmlClassName
                      /\ \/ classes[t].codePath \in classes[s].importedPaths
                         \/ classes[t].codePath = classes[s].codePath

\* C2: association resolution never links across unrelated files: every edge
\* addAssociationsToDot emits has a target of the associated name whose codePath
\* is imported by the source or equal to the source's, whatever the list order.
C2_EdgesFollowImports ==
    /\ EdgesJustified(assocDot.text, assocDot.classes)
    /\ renders > 0 => EdgesJustified(dot, umlClasses)

\* Foo of file B stands before Foo of file A in the list, a class of file C that
\* imports only A is associated to Foo, and the edge to A's Foo was emitted
C2_Witness ==
    \E i, j, s \in 1..Len(assocDot.classes) :
        LET cs == assocDot.classes
        IN  /\ j < i
            /\ cs[i].name = "Foo" /\ cs[i].codePath = FileA
            /\ cs[j].name = "Foo" /\ cs[j].codePath = FileB
            /\ cs[s].codePath = FileC /\ cs[s].importedPaths = {FileA}
            /\ \E a \in 1..Len(cs[s].associations) :
                  cs[s].associations[a].targetUmlClassName = "Foo"
            /\ \E k \in 1..Len(assocDot.text) :
                  /\ assocDot.text[k].kind = "edge"
                  /\ assocDot.text[k].id = cs[s].id
                  /\ assocDot.text[k].tgt = cs[i].id

\* some class of the list has the associated name and a file the source imports
\* or shares
Resolvable(classes, source, association) ==
    \E t \in 1..Len(classes) :
        /\ classes[t].name = association.targetUmlClassName
        /\ \/ classes[t].codePath \in source.importedPaths
           \/ classes[t].codePath = source.codePath

\* the associations of source for which an edge is due: resolvable, and the
\* target found is not hidden
DueAssociations(classes, source) ==
    {a \in 1..Len(source.associations) :
        /\ Resolvable(classes, source, source.associations[a])
        /\ ~HiddenByOptions(
              classes[FindTarget(classes, source, source.associations[a])])}

EdgesOf(text, id) == {k \in 1..Len(text) : text[k].kind = "edge" /\ text[k].id = id}

UnresolvedDropped(text, classes) ==
    \A s \in 1..Len(classes) :
        Cardinality(EdgesOf(text, classes[s].id))
            = Cardinality(DueAssociations(classes, classes[s]))

\* C3: an association whose target name matches no class of the list, or only
\* classes in files the source neither imports nor shares, produces no edge, and
\* the edges of the class's other associations are still emitted.
C3_UnresolvedDropped ==
    /\ UnresolvedDropped(assocDot.text, assocDot.classes)
    /\ renders > 0 => UnresolvedDropped(dot, umlClasses)

\* a class's first association has no target, its second one has, and the edge
\* of the second was emitted
C3_Witness ==
    \E s \in 1..Len(assocDot.classes) :
        LET c == assocDot.classes[s]
        IN  /\ Len(c.associations) = 2
            /\ ~Resolvable(assocDot.classes, c, c.associations[1])
            /\ Resolvable(assocDot.classes, c, c.associations[2])
            /\ Cardinality(EdgesOf(assocDot.text, c.id)) = 1

\* C4: two renders in a row of the same list with the same options return the
\* same text, subgraph names included.
C4_RepeatedRenderIdentical == renders > 1 => dot = prevDot

Folders(classes) == {Dirname(classes[i].codePath) : i \in 1..Len(classes)}

\* C9: each folder among the classes has exactly one subgraph block in the text
\* convertUmlClasses2Dot returns.
C9_OneSubgraphPerFolder ==
    renders > 0 =>
        \A folder \in Folders(umlClasses) :
            Cardinality({k \in 1..Len(dot) :
                            dot[k].kind = "subgraph" /\ dot[k].path = folder}) = 1

----------------------------------------------------------------------------
(* Properties of the node label *)

\* the label of the node the last direct dotUmlClass call wrote
NodeLabel == nodeDot.text[1].label

\* the tier a member of this visibility belongs under
ExpectedTier(visibility) ==
    IF visibility \in {"Private", "Internal", "External"} THEN visibility
    ELSE "Public"

TierIndex(tier) == CHOOSE g \in 1..Len(VizGroups) : VizGroups[g] = tier

\* the headings before position k of the label
HeadsBefore(label, k) == {h \in 1..(k - 1) : label[h].t = "head"}

\* the heading position k of the label stands under (0 when there is none)
HeadOf(label, k) ==
    IF HeadsBefore(label, k) = {} THEN 0
    ELSE CHOOSE h \in HeadsBefore(label, k) : \A j \in HeadsBefore(label, k) : j <= h

\* each member of the list appears once, as a token of kind t, under its tier
MembersUnderTiers(label, members, t) ==
    /\ Cardinality({k \in 1..Len(label) : label[k].t = t}) = Len(members)
    /\ \A m \in 1..Len(members) :
          LET hits == {k \in 1..Len(label) :
                          label[k].t = t /\ label[k].s = members[m].name}
          IN  /\ Cardinality(hits) = 1
              /\ \A k \in hits :
                    /\ HeadOf(label, k) # 0
                    /\ label[HeadOf(label, k)].s = ExpectedTier(members[m].visibility)

\* within a section headings follow the fixed order, and none is empty
HeadingsOrdered(label) ==
    \A h \in 1..Len(label) :
        label[h].t = "head" =>
            /\ h < Len(label)
            /\ label[h + 1].t \in {"attr", "op"}
            /\ \A g \in HeadsBefore(label, h) :
                  (\A k \in g..h : label[k].t # "sep")
                      => TierIndex(label[g].s) < TierIndex(label[h].s)

\* C7: each attribute and each operator appears exactly once in the node label,
\* under Private, Internal or External when that is its visibility and under
\* Public when its visibility is Public, None or missing; the tiers come in the
\* order Private, Internal, External, Public; an empty tier has no heading.
C7_VisibilityPartition ==
    nodeDot.text # <<>> =>
        /\ "hideAttributes" \notin classOptions
              => MembersUnderTiers(NodeLabel, nodeDot.class.attributes, "attr")
        /\ "hideOperators" \notin classOptions
              => MembersUnderTiers(NodeLabel, nodeDot.class.operators, "op")
        /\ HeadingsOrdered(NodeLabel)

\* a label was written for a class with a member without visibility, a member of
\* visibility None and a Private one, so that some tier is empty and two are not
C7_Witness ==
    /\ nodeDot.text # <<>>
    /\ "hideAttributes" \notin classOptions
    /\ \E a, b, c \in 1..Len(nodeDot.class.attributes) :
          /\ nodeDot.class.attributes[a].visibility = "undefined"
          /\ nodeDot.class.attributes[b].visibility = "None"
          /\ nodeDot.class.attributes[c].visibility = "Private"
    /\ Cardinality({k \in 1..Len(NodeLabel) : NodeLabel[k].t = "attr"}) = 3

\* position in the class's operators list of the operator a token renders
OperatorIndex(class, token) ==
    CHOOSE m \in 1..Len(class.operators) : class.operators[m].name = token.s

\* C8: within a tier operators are rendered in descending order of stereotype
\* ordinal, operators of equal stereotype in the order of the class's operators
\* list, and that list is left in its original order.
C8_OperatorOrder ==
    nodeDot.text # <<>> =>
        /\ \A k \in 1..(Len(NodeLabel) - 1) :
              (NodeLabel[k].t = "op" /\ NodeLabel[k + 1].t = "op") =>
                  LET i == OperatorIndex(nodeDot.class, NodeLabel[k])
                      j == OperatorIndex(nodeDot.class, NodeLabel[k + 1])
                      ops == nodeDot.class.operators
                  IN  /\ ops[i].stereotype >= ops[j].stereotype
                      /\ ops[i].stereotype = ops[j].stereotype => i < j
        /\ \A c \in 1..Len(umlClasses) :
              umlClasses[c].id = nodeDot.class.id
                  => umlClasses[c].operators = nodeDot.class.operators

\* a label was written with three operators in one tier, two of equal stereotype
\* that the list holds around a higher one
C8_Witness ==
    /\ nodeDot.text # <<>>
    /\ "hideOperators" \notin classOptions
    /\ Len(nodeDot.class.operators) = 3
    /\ \A m \in 1..3 : ExpectedTier(nodeDot.class.operators[m].visibility) = "Public"
    /\ nodeDot.class.operators[1].stereotype = nodeDot.class.operators[3].stereotype
    /\ nodeDot.class.operators[2].stereotype > nodeDot.class.operators[1].stereotype
    /\ \E k \in 1..(Len(NodeLabel) - 2) :
          /\ NodeLabel[k].s = "f2"
          /\ NodeLabel[k + 1].s = "f1"
          /\ NodeLabel[k + 2].s = "f3"

----------------------------------------------------------------------------
(* Properties of the files *)

\* C5: with outputFormat 'dot' the only external effect is one write of the
\* graph text: no layout call, no raster conversion, no svg or png content written.
C5_DotFormatWritesDotOnly ==
    (outputFormat = "dot" /\ pc # "idle") =>
        /\ Len(calls) = 1
        /\ calls[1].op = "writeFile"
        /\ calls[1].content = "dot"
        /\ \A w \in pending : w.by = "writeDot" /\ w.content = "dot"
        /\ \A f \in files : f.content = "dot" /\ f.path = Resolve(calls[1].path)

\* a 'dot' run with an explicit file name has returned and its write is done
C5_Witness ==
    /\ outputFormat = "dot"
    /\ outputFilename # <<>>
    /\ pc = "done"
    /\ outcome = "resolved"
    /\ pending = {}
    /\ files # {}

\* C6: the graph text is written to a file whose name ends in '.dot', with or
\* without an explicit outputFilename, and for 'all' that file is not the file
\* the svg image is written to.
C6_DotTextInDotFile ==
    \A k \in 1..Len(calls) :
        (calls[k].op = "writeFile" /\ calls[k].content = "dot") =>
            /\ ParsePath(calls[k].path).ext = <<".", "d", "o", "t">>
            /\ \A j \in 1..Len(calls) :
                  (calls[j].op = "writeFile" /\ calls[j].content = "svg")
                      => Resolve(calls[j].path) # Resolve(calls[k].path)

\* C10: whenever the raster converter is invoked, the file at the path handed to
\* it is the svg file this run has written, completely.
C10_ConverterReadsWrittenSvg ==
    \A k \in 1..Len(calls) :
        calls[k].op = "svg_to_png" =>
            /\ calls[k].content = "svg"
            /\ \E j \in 1..(k - 1) :
                  /\ calls[j].op = "writeFile"
                  /\ calls[j].content = "svg"
                  /\ Resolve(calls[j].path) = calls[k].path

\* C11: every file-write failure propagates to the caller: once the write of the
\* dot file or of the svg file has failed, the promise of
\* generateFilesFromUmlClasses is rejected; it is not resolved.
C11_WriteFailureRejects == failed # {} => outcome = "rejected"

\* the positions of the classes that satisfy the match rule for the association:
\* the associated name, and a file the source imports or shares
Matches(classes, source, association) ==
    {t \in 1..Len(classes) :
        /\ classes[t].name = association.targetUmlClassName
        /\ \/ classes[t].codePath \in source.importedPaths
           \/ classes[t].codePath = source.codePath}

\* the earliest position of a non-empty set of positions
Earliest(positions) == CHOOSE t \in positions : \A u \in positions : t <= u

\* the edges of the text from the source to one of the classes at the positions
EdgesInto(text, classes, source, positions) ==
    {k \in 1..Len(text) :
        /\ text[k].kind = "edge"
        /\ text[k].id = source.id
        /\ \E t \in positions : text[k].tgt = classes[t].id}

\* each association with several matches has exactly one edge into its matches,
\* and that edge points at the earliest of them
OneEdgeToFirstMatch(text, classes) ==
    \A s \in 1..Len(classes) : \A a \in 1..Len(classes[s].associations) :
        LET m == Matches(classes, classes[s], classes[s].associations[a])
            e == EdgesInto(text, classes, classes[s], m)
        IN  Cardinality(m) > 1 =>
                /\ Cardinality(e) = 1
                /\ \A k \in e : text[k].tgt = classes[Earliest(m)].id

\* C12 as stated: when several classes match one association,
\* addAssociationsToDot emits exactly one edge for it, to the first match in list
\* order, and none to a later match.
C12_OneEdgeToFirstMatch ==
    /\ OneEdgeToFirstMatch(assocDot.text, assocDot.classes)
    /\ renders > 0 => OneEdgeToFirstMatch(dot, umlClasses)

\* each association with several matches has one edge, to the earliest match,
\* when that match is not hidden by the options, and no edge into its matches
\* when it is
FirstMatchOrNone(text, classes) ==
    \A s \in 1..Len(classes) : \A a \in 1..Len(classes[s].associations) :
        LET m == Matches(classes, classes[s], classes[s].associations[a])
            e == EdgesInto(text, classes, classes[s], m)
        IN  Cardinality(m) > 1 =>
                /\ Cardinality(e) = IF HiddenByOptions(classes[Earliest(m)])
                                    THEN 0 ELSE 1
                /\ \A k \in e : text[k].tgt = classes[Earliest(m)].id

\* C12 (amended): when several classes match one association,
\* addAssociationsToDot emits exactly one edge for it, to the first match in list
\* order, unless that first match is a Library or Interface hidden by the
\* options, in which case it emits none; no edge is emitted to a later match.
C12_FirstMatchOrNone ==
    /\ FirstMatchOrNone(assocDot.text, assocDot.classes)
    /\ renders > 0 => FirstMatchOrNone(dot, umlClasses)

\* an association has two matches in different files, the first is not hidden,
\* and the one edge from the source into the matches points at the first
C12_Witness ==
    \E s \in 1..Len(assocDot.classes) :
        LET cs == assocDot.classes
        IN  \E a \in 1..Len(cs[s].associations) :
                LET m == Matches(cs, cs[s], cs[s].associations[a])
                    e == EdgesInto(assocDot.text, cs, cs[s], m)
                IN  /\ Cardinality(m) > 1
                    /\ \E t, u \in m : cs[t].codePath # cs[u].codePath
                    /\ ~HiddenByOptions(cs[Earliest(m)])
                    /\ Cardinality(e) = 1
                    /\ \A k \in e : assocDot.text[k].tgt = cs[Earliest(m)].id

\* the text declares the node of the class with the given id
NodeDeclared(text, id) ==
    \E k \in 1..Len(text) : text[k].kind = "node" /\ text[k].id = id

\* C14: the text convertUmlClasses2Dot returns has no dangling association edge:
\* both endpoints of every edge 'S -> T' are declared as nodes in that text, so
\* no edge leaves a Library or Interface hidden by the options.
C14_NoDanglingEdges ==
    renders > 0 =>
        \A k \in 1..Len(dot) :
            dot[k].kind = "edge" =>
                /\ NodeDeclared(dot, dot[k].id)
                /\ NodeDeclared(dot, dot[k].tgt)

----------------------------------------------------------------------------
(* etherscanParser.ts: EtherscanParser.getSourceCode *)

\* the most entries of the result array of a response
MaxResults == 2

Addresses == {"0xA", "0xB"}

RECURSIVE Concat(_)
\* the string of a sequence of characters
Concat(chars) == IF chars = <<>> THEN "" ELSE Head(chars) \o Concat(Tail(chars))

\* a SourceCode field: a string (its characters) or an object with a sources object
StringSource(chars) == [type |-> "string", chars |-> chars, sources |-> <<>>]

ObjectSource(sources) == [type |-> "object", chars |-> <<>>, sources |-> sources]

SourceFile(filename, content) == [filename |-> filename, content |-> content]

\* ''
EmptyChars == <<>>

\* 'contract A {}' shortened to 'c A'
PlainChars == <<"c", " ", "A">>

\* '{{"sources":{"A":{"content":"a"}}}}'
OneFileChars ==
    <<"{", "{", "\"", "s", "o", "u", "r", "c", "e", "s", "\"", ":", "{",
      "\"", "A", "\"", ":", "{", "\"", "c", "o", "n", "t", "e", "n", "t",
      "\"", ":", "\"", "a", "\"", "}", "}", "}", "}">>

\* '{{"sources":{"A":{"content":"a"},"B":{"content":"b"}}}}'
TwoFileChars ==
    <<"{", "{", "\"", "s", "o", "u", "r", "c", "e", "s", "\"", ":", "{",
      "\"", "A", "\"", ":", "{", "\"", "c", "o", "n", "t", "e", "n", "t",
      "\"", ":", "\"", "a", "\"", "}", ",", "\"", "B", "\"", ":", "{", "\"",
      "c", "o", "n", "t", "e", "n", "t", "\"", ":", "\"", "b", "\"", "}",
      "}", "}", "}">>

\* '{{}}'
NoSourcesChars == <<"{", "{", "}", "}">>

\* '{{"sources":'
MalformedChars ==
    <<"{", "{", "\"", "s", "o", "u", "r", "c", "e", "s", "\"", ":">>

SourceCodes ==
    {StringSource(EmptyChars), StringSource(PlainChars), StringSource(OneFileChars),
     StringSource(TwoFileChars), StringSource(NoSourcesChars),
     StringSource(MalformedChars), ObjectSource(<<SourceFile("A", "a")>>)}

\* response.data: absent, or an object whose result is absent, a string or an array
Data(present, kind, text, items) ==
    [present |-> present, result |-> [kind |-> kind, text |-> text, items |-> items]]

NoData == Data(FALSE, "absent", "", <<>>)

ResultArrays == UNION {[1..n -> SourceCodes] : n \in 0..MaxResults}

DataChoices ==
    {NoData, Data(TRUE, "absent", "", <<>>),
     Data(TRUE, "string", "Invalid API Key", <<>>)}
    \cup {Data(TRUE, "array", "", items) : items \in ResultArrays}

\* how axios.get settles: rejected without a response, rejected with the response
\* of a status outside 2xx, or fulfilled with a response
Response(kind, status, statusText, data) ==
    [kind |-> kind, status |-> status, statusText |-> statusText, data |-> data]

NoResponse == Response("none", 0, "", NoData)

Responses ==
    {Response("noResponse", 0, "", NoData),
     Response("httpError", 404, "Not Found", NoData),
     Response("httpError", 500, "Internal Server Error", NoData)}
    \cup {Response("ok", 200, "OK", d) : d \in DataChoices}

\* JSON.stringify(response?.data), evaluated at line 88 only when the result is
\* not an array
JSONstringify(data) ==
    CASE ~data.present -> "undefined"
      [] data.present /\ data.result.kind = "absent" -> "{}"
      [] data.present /\ data.result.kind = "string" ->
            "{\"result\":\"" \o data.result.text \o "\"}"

\* SourceCode.slice(1, -1)
Slice1(chars) == SubSeq(chars, 2, Len(chars) - 1)

\* JSON.parse of the texts above: the object parsed, or thrown for a SyntaxError
JSONparse(chars) ==
    CASE chars = Slice1(OneFileChars) ->
            [thrown |-> FALSE, hasSources |-> TRUE,
             sources |-> <<SourceFile("A", "a")>>]
      [] chars = Slice1(TwoFileChars) ->
            [thrown |-> FALSE, hasSources |-> TRUE,
             sources |-> <<SourceFile("A", "a"), SourceFile("B", "b")>>]
      [] chars = Slice1(NoSourcesChars) ->
            [thrown |-> FALSE, hasSources |-> FALSE, sources |-> <<>>]
      [] OTHER -> [thrown |-> TRUE, hasSources |-> FALSE, sources |-> <<>>]

\* an error object; hasResponse, status and statusText are its .response
Err(name, message, hasResponse, status, statusText) ==
    [name |-> name, message |-> message, hasResponse |-> hasResponse,
     status |-> status, statusText |-> statusText]

NoError == Err("", "", FALSE, 0, "")

Thrown(error) == [ok |-> FALSE, files |-> <<>>, error |-> error]

Returned(sourceFiles) == [ok |-> TRUE, files |-> sourceFiles, error |-> NoError]

Description(address) ==
    "get verified source code for address " \o address \o " from Etherscan API."

NoResultArrayMessage(address, data) ==
    "Failed to " \o Description(address) \o ". No result array in HTTP data: "
        \o JSONstringify(data)

NotVerifiedMessage(address) ==
    "Failed to " \o Description(address)
        \o ". Most likely the contract has not been verified on Etherscan."

BundleMessage(chars) ==
    "Failed to parse Solidity source code from Etherscan's SourceCode. "
        \o Concat(chars)

NoHttpResponseMessage(address) ==
    "Failed to " \o Description(address) \o ". No HTTP response."

HttpStatusMessage(address, status, statusText) ==
    "Failed to " \o Description(address) \o ". HTTP status code "
        \o ToString(status) \o ", status text: " \o statusText

\* lines 104-123: Object.entries(undefined) throws inside the same try
BundleFiles(address, chars) ==
    LET parsed == JSONparse(Slice1(chars))
    IN  IF parsed.thrown \/ ~parsed.hasSources
        THEN Thrown(Err("VError", BundleMessage(chars), FALSE, 0, ""))
        ELSE Returned([i \in 1..Len(parsed.sources) |->
                          [code |-> parsed.sources[i].content,
                           filename |-> parsed.sources[i].filename]])

\* the callback of response.data.result.map, lines 94-140
ResultFiles(address, result) ==
    LET sc == result
    IN  IF sc.type = "string" /\ sc.chars = <<>>
        THEN Thrown(Err("Error", NotVerifiedMessage(address), FALSE, 0, ""))
        ELSE IF sc.type = "string" /\ sc.chars[1] = "{"
        THEN BundleFiles(address, sc.chars)
        ELSE IF sc.type = "object"
        THEN IF sc.sources = <<>> THEN Returned(<<>>)
             ELSE Thrown(Err("TypeError", "undefined is not iterable", FALSE, 0, ""))
        ELSE Returned(<<[code |-> Concat(sc.chars), filename |-> address]>>)

RECURSIVE MapResults(_, _, _)
\* results.map(...).flat(1) from entry k on: the first throw ends it
MapResults(address, items, k) ==
    IF k > Len(items) THEN Returned(<<>>)
    ELSE LET first == ResultFiles(address, items[k])
         IN  IF ~first.ok THEN first
             ELSE LET rest == MapResults(address, items, k + 1)
                  IN  IF ~rest.ok THEN rest
                      ELSE Returned(first.files \o rest.files)

\* the error axios.get rejects with
AxiosError(resp) ==
    IF resp.kind = "httpError"
    THEN Err("AxiosError", "Request failed with status code " \o ToString(resp.status),
             TRUE, resp.status, resp.statusText)
    ELSE Err("AxiosError", "Network Error", FALSE, 0, "")

\* the try block, lines 76-141
TryBlock(address, resp) ==
    IF resp.kind # "ok" THEN Thrown(AxiosError(resp))
    ELSE IF ~(resp.data.present /\ resp.data.result.kind = "array")
    THEN Thrown(Err("Error", NoResultArrayMessage(address, resp.data), FALSE, 0, ""))
    ELSE MapResults(address, resp.data.result.items, 1)

\* the catch block, lines 142-149
CatchBlock(address, err) ==
    IF ~err.hasResponse
    THEN Err("Error", NoHttpResponseMessage(address), FALSE, 0, "")
    ELSE Err("VError", HttpStatusMessage(address, err.status, err.statusText),
             FALSE, 0, "")

Settled(kind, sourceFiles, error) ==
    [kind |-> kind, files |-> sourceFiles, error |-> error]

\* how the promise of getSourceCode settles once axios.get has settled with resp
getSourceCode(address, resp) ==
    LET tried == TryBlock(address, resp)
    IN  IF tried.ok THEN Settled("resolved", tried.files, NoError)
        ELSE Settled("rejected", <<>>, CatchBlock(address, tried.error))

InitEtherscan ==
    /\ umlClasses = <<>>
    /\ classOptions = {}
    /\ clusterFolders = FALSE
    /\ RenderIdle
    /\ outputFormat = "svg"
    /\ outputBaseName = <<>>
    /\ outputFilename = <<>>
    /\ isDirectory = FALSE
    /\ pc = "idle"
    /\ pending = {}
    /\ files = {}
    /\ calls = <<>>
    /\ outcome = "idle"
    /\ failed = {}
    /\ EtherscanIdle

\* getSourceCode is called and runs to its await of axios.get
GetSourceCode ==
    /\ sourceCode.kind = "none"
    /\ \E address \in Addresses : contractAddress' = address
    /\ sourceCode' = Settled("pending", <<>>, NoError)
    /\ UNCHANGED response
    /\ UNCHANGED renderVars
    /\ UNCHANGED fileVars

\* axios.get settles and getSourceCode runs to its end
AxiosSettles ==
    /\ sourceCode.kind = "pending"
    /\ \E resp \in Responses :
        /\ response' = resp
        /\ sourceCode' = getSourceCode(contractAddress, resp)
    /\ UNCHANGED contractAddress
    /\ UNCHANGED renderVars
    /\ UNCHANGED fileVars

NextEtherscan == GetSourceCode \/ AxiosSettles

SpecEtherscan == InitEtherscan /\ [][NextEtherscan]_vars

\* the response is a successful one whose data the try block rejects with a
\* descriptive failure: no result array, an empty SourceCode, a bundle that does
\* not parse
UpstreamDataError ==
    /\ response.kind = "ok"
    /\ ~TryBlock(contractAddress, response).ok
    /\ TryBlock(contractAddress, response).error.name \in {"Error", "VError"}

\* C13: an upstream-data error detected after a successful HTTP response (no
\* result array, an empty SourceCode field, a malformed nested JSON bundle)
\* reaches the caller of getSourceCode as that descriptive failure; it is not
\* replaced by another error such as 'No HTTP response'.
C13_UpstreamErrorReachesCaller ==
    (sourceCode.kind \in {"resolved", "rejected"} /\ UpstreamDataError) =>
        /\ sourceCode.kind = "rejected"
        /\ sourceCode.error.message
              = TryBlock(contractAddress, response).error.message
        /\ sourceCode.error.message # NoHttpResponseMessage(contractAddress)

====
